---- MODULE Spec2Model ----
(***************************************************************************)
(* Model of src/save/utils.rs of the gba crate: the timer registry         *)
(* (TIMER_ID, set_timer_for_timeout, disable_timeout), the Timeout         *)
(* watchdog (new, start, is_timeout_met, drop) and lock_media.             *)
(*                                                                         *)
(* Execution model: one thread of control ("main") that an interrupt       *)
(* handler ("irq") may preempt between any two atomic steps.  While the    *)
(* handler runs the interrupted code is frozen where it was; the handler   *)
(* runs to its return.  The four hardware timer units tick on their own.   *)
(***************************************************************************)
EXTENDS Integers, Sequences, FiniteSets, TLC

(* ---------------------------- bounds ----------------------------------- *)
\* largest argument handed to set_timer_for_timeout, besides u8::MAX
MaxId == 4
\* SpecTimer calls is_timeout_met with check_ms up to MaxMs away from 0 and
\* from the first value whose tick threshold no longer fits in 16 bits
MaxMs == 2
\* number of hardware events (ticks, register writes by other code) in one
\* behaviour of SpecTimer
MaxHw == 3

(* ------------------------- program constants --------------------------- *)
U8Max == 255
U16Mod == 65536
TicksPerMs == 17
NumTimers == 4

Ctx == {"main", "irq"}
Units == 0 .. (NumTimers - 1)

(* ----------------------------- TimerId --------------------------------- *)
TimerId == {"None", "T0", "T1", "T2", "T3"}

\* [TimerId::T0, TimerId::T1, TimerId::T2, TimerId::T3][id as usize]
TimerIdTable == <<"T0", "T1", "T2", "T3">>
TimerIdOfIndex(i) == TimerIdTable[i + 1]

(* ---------------------- registers of crate::io::timers ----------------- *)
\* VolAddress::new(0): the placeholder both handles get when no timer is set
NullAddress == <<"addr", 0>>
TMCNT_L(u) == <<"TMCNT_L", u>>
TMCNT_H(u) == <<"TMCNT_H", u>>

\* TimerTickRate: CPU1, CPU64, CPU256, CPU1024
TimerTickRate == {"CPU1", "CPU64", "CPU256", "CPU1024"}
\* TimerControlSetting::new(): every field cleared
TimerControlSetting_new == [tick_rate |-> "CPU1", enabled |-> FALSE]
with_tick_rate(s, r) == [s EXCEPT !.tick_rate = r]
with_enabled(s, b) == [s EXCEPT !.enabled = b]
\* the value start() builds at lines 84-86
timer_ctl == with_enabled(with_tick_rate(TimerControlSetting_new, "CPU1024"), TRUE)

\* match id { ... } of timer_l (lines 63-69)
TimerLOf(id) ==
    CASE id = "None" -> NullAddress
      [] id = "T0" -> TMCNT_L(0)
      [] id = "T1" -> TMCNT_L(1)
      [] id = "T2" -> TMCNT_L(2)
      [] id = "T3" -> TMCNT_L(3)

\* a timer_h match with the arm of T3 copied from T2 and left unchanged
TimerHOf_CopyPaste(id) ==
    CASE id = "None" -> NullAddress
      [] id = "T0" -> TMCNT_H(0)
      [] id = "T1" -> TMCNT_H(1)
      [] id = "T2" -> TMCNT_H(2)
      [] id = "T3" -> TMCNT_H(2)

\* match id { ... } of timer_h (lines 70-76)
TimerHOf(id) ==
    CASE id = "None" -> NullAddress
      [] id = "T0" -> TMCNT_H(0)
      [] id = "T1" -> TMCNT_H(1)
      [] id = "T2" -> TMCNT_H(2)
      [] id = "T3" -> TMCNT_H(3)

\* Timeout { _lock_guard, active, timer_l, timer_h } (lines 60-77)
MakeTimeout(id) ==
    [active |-> id # "None", timer_l |-> TimerLOf(id), timer_h |-> TimerHOf(id)]

(* ------------------ hardware timer units (environment) ----------------- *)
\* A unit as the program sees it through TMxCNT_L / TMxCNT_H: a write to
\* TMxCNT_L sets the reload latch, a read of TMxCNT_L returns the running
\* counter, and the counter is loaded from the latch when the enable bit of
\* TMxCNT_H goes from 0 to 1 and when the counter overflows.
PowerOnTimer == [reload |-> 0, counter |-> 0, ctl |-> TimerControlSetting_new]

\* VolAddress::write(value) on the timer file tm
VolWrite(tm, addr, value) ==
    IF \E u \in Units : addr = TMCNT_L(u)
    THEN LET u == CHOOSE x \in Units : addr = TMCNT_L(x)
         IN  [tm EXCEPT ![u].reload = value]
    ELSE IF \E u \in Units : addr = TMCNT_H(u)
    THEN LET u == CHOOSE x \in Units : addr = TMCNT_H(x)
         IN  [tm EXCEPT ![u].ctl = value,
                        ![u].counter = IF ~tm[u].ctl.enabled /\ value.enabled
                                       THEN tm[u].reload
                                       ELSE tm[u].counter]
    ELSE tm

\* VolAddress::read(): the values a read of addr can return, the counter for
\* a counter register and anything at all for an address that is no timer
VolRead(tm, addr) ==
    IF \E u \in Units : addr = TMCNT_L(u)
    THEN {tm[CHOOSE x \in Units : addr = TMCNT_L(x)].counter}
    ELSE {0, U16Mod - 1}

\* u16 multiplication: the product when it fits; when it does not, the
\* wrapped product (overflow checks off) or a panic (overflow checks on)
MulU16(a, b) ==
    IF a * b < U16Mod
    THEN {[panic |-> FALSE, value |-> a * b]}
    ELSE {[panic |-> FALSE, value |-> (a * b) % U16Mod],
          [panic |-> TRUE, value |-> 0]}

VARIABLES
    TIMER_ID,      \* static TIMER_ID: Static<TimerId>
    TIMEOUT_LOCK,  \* static TIMEOUT_LOCK: RawMutex inside Timeout::new (TRUE = locked)
    LOCK,          \* static LOCK: RawMutex inside lock_media (TRUE = locked)
    timers,        \* the four hardware units: reload latch, counter, control
    pc,            \* per context: the line it will execute next, or "idle"
    id,            \* per context: the local `id` of Timeout::new
    self,          \* per context: the Timeout start() is running on
    timeouts,      \* per context: the live Timeout values it owns
    guards,        \* per context: how many media RawMutexGuards it owns
    in_irq,        \* TRUE while the interrupt handler runs
    hw,            \* hardware events so far (bounded by MaxHw)
    writes,        \* the register writes so far of a start() call in progress
    ret,           \* the outcome of the last completed call
    elapsed        \* ticks counted since start() of the live Timeout, or NotStarted

vars == <<TIMER_ID, TIMEOUT_LOCK, LOCK, timers, pc, id, self, timeouts, guards,
          in_irq, hw, writes, ret, elapsed>>

\* elapsed when no start() has returned on the live Timeout
NotStarted == -1

NoSelf == [active |-> FALSE, timer_l |-> NullAddress, timer_h |-> NullAddress]
NoRet ==
    [op |-> "none", ctx |-> "main", arg |-> 0, active |-> FALSE, v |-> 0,
     val |-> "unit", writes |-> <<>>]
\* a panic halts the program (there is no unwinding on this target)
Panicked == ret.val = "panic"

\* the context that has the CPU
Running(c) == ~Panicked /\ (IF in_irq THEN c = "irq" ELSE c = "main")


\* what a completed call leaves in ret: the call, who made it, its argument,
\* the active flag and counter value it saw, and its result
Ret(op, c, arg, active, v, val) ==
    [op |-> op, ctx |-> c, arg |-> arg, active |-> active, v |-> v, val |-> val,
     writes |-> <<>>]

\* a call may begin: c has the CPU and is between calls
CanCall(c) == Running(c) /\ pc[c] = "idle"

\* Timeout values one context can own in the model (the lock allows one)
MaxOwned == 2

RemoveAt(s, i) == [j \in 1 .. (Len(s) - 1) |-> IF j < i THEN s[j] ELSE s[j + 1]]

\* arguments handed to set_timer_for_timeout (a u8)
IdArgs == (0 .. MaxId) \cup {U8Max}
\* the first check_ms whose tick threshold does not fit in a u16
OverflowMs == (U16Mod \div TicksPerMs) + 1
\* arguments handed to is_timeout_met (a u16): the smallest ones and the two
\* around the largest threshold a u16 holds
CheckMsArgs == {0, 1, OverflowMs - 1, OverflowMs}
\* the same with their neighbours up to MaxMs away, and u16::MAX
WideMsArgs ==
    (0 .. MaxMs) \cup ((OverflowMs - 1 - MaxMs) .. (OverflowMs + MaxMs)) \cup {U16Mod - 1}
\* how far a tick event advances a running counter
TickSteps == {1, TicksPerMs, U16Mod - 1}

Init ==
    /\ TIMER_ID = "None"
    /\ TIMEOUT_LOCK = FALSE
    /\ LOCK = FALSE
    /\ timers = [u \in Units |-> PowerOnTimer]
    /\ pc = [c \in Ctx |-> "idle"]
    /\ id = [c \in Ctx |-> "None"]
    /\ self = [c \in Ctx |-> NoSelf]
    /\ timeouts = [c \in Ctx |-> <<>>]
    /\ guards = [c \in Ctx |-> 0]
    /\ in_irq = FALSE
    /\ hw = 0
    /\ writes = <<>>
    /\ ret = NoRet
    /\ elapsed = NotStarted

(* --------------------------- timer registry ---------------------------- *)
\* a set_timer_for_timeout that clears the selector before it panics
set_timer_for_timeout_ClearFirst(c, i) ==
    /\ CanCall(c)
    /\ IF i >= NumTimers
       THEN /\ ret' = Ret("set_timer_for_timeout", c, i, FALSE, 0, "panic")
            /\ TIMER_ID' = "None"
       ELSE /\ TIMER_ID' = TimerIdOfIndex(i)
            /\ ret' = Ret("set_timer_for_timeout", c, i, FALSE, 0, "unit")
    /\ UNCHANGED <<TIMEOUT_LOCK, LOCK, timers, pc, id, self, timeouts, guards,
                   in_irq, hw, writes>>
    /\ UNCHANGED elapsed

\* pub fn set_timer_for_timeout(id: u8)
set_timer_for_timeout(c, i) ==
    /\ CanCall(c)
    /\ IF i >= NumTimers
       THEN /\ ret' = Ret("set_timer_for_timeout", c, i, FALSE, 0, "panic")
            /\ UNCHANGED TIMER_ID
       ELSE /\ TIMER_ID' = TimerIdOfIndex(i)
            /\ ret' = Ret("set_timer_for_timeout", c, i, FALSE, 0, "unit")
    /\ UNCHANGED <<TIMEOUT_LOCK, LOCK, timers, pc, id, self, timeouts, guards,
                   in_irq, hw, writes>>
    /\ UNCHANGED elapsed

\* pub fn disable_timeout()
disable_timeout(c) ==
    /\ CanCall(c)
    /\ TIMER_ID' = "None"
    /\ ret' = Ret("disable_timeout", c, 0, FALSE, 0, "unit")
    /\ UNCHANGED <<TIMEOUT_LOCK, LOCK, timers, pc, id, self, timeouts, guards,
                   in_irq, hw, writes>>
    /\ UNCHANGED elapsed

(* ------------------------------ Timeout -------------------------------- *)
\* RawMutex::try_lock: TRUE when the mutex was free (it is then locked)
try_lock(m) == ~m

\* a Timeout::new that goes on when try_lock returns None
Timeout_new_55_NoCheck(c) ==
    /\ CanCall(c)
    /\ TIMEOUT_LOCK' = TRUE
    /\ pc' = [pc EXCEPT ![c] = "new_59"]
    /\ UNCHANGED <<TIMER_ID, LOCK, timers, id, self, timeouts, guards, in_irq,
                   hw, writes, ret>>
    /\ UNCHANGED elapsed

\* a Timeout::new that takes the mutex with a blocking lock(): the call
\* cannot go on until the holder lets go
Timeout_new_55_Blocking(c) ==
    /\ CanCall(c)
    /\ try_lock(TIMEOUT_LOCK)
    /\ TIMEOUT_LOCK' = TRUE
    /\ pc' = [pc EXCEPT ![c] = "new_59"]
    /\ UNCHANGED <<TIMER_ID, LOCK, timers, id, self, timeouts, guards, in_irq,
                   hw, writes, ret>>
    /\ UNCHANGED elapsed

\* a Timeout::new whose failure path unlocks the mutex it did not get
Timeout_new_55_FailUnlocks(c) ==
    /\ CanCall(c)
    /\ IF try_lock(TIMEOUT_LOCK)
       THEN /\ TIMEOUT_LOCK' = TRUE
            /\ pc' = [pc EXCEPT ![c] = "new_59"]
            /\ UNCHANGED ret
       ELSE /\ ret' = Ret("Timeout::new", c, 0, FALSE, 0, "MediaInUse")
            /\ TIMEOUT_LOCK' = FALSE
            /\ UNCHANGED pc
    /\ UNCHANGED <<TIMER_ID, LOCK, timers, id, self, timeouts, guards, in_irq,
                   hw, writes>>
    /\ UNCHANGED elapsed

\* lines 55-58: let _lock_guard = match TIMEOUT_LOCK.try_lock() { ... }
Timeout_new_55(c) ==
    /\ CanCall(c)
    /\ IF try_lock(TIMEOUT_LOCK)
       THEN /\ TIMEOUT_LOCK' = TRUE
            /\ pc' = [pc EXCEPT ![c] = "new_59"]
            /\ UNCHANGED ret
       ELSE /\ ret' = Ret("Timeout::new", c, 0, FALSE, 0, "MediaInUse")
            /\ UNCHANGED <<TIMEOUT_LOCK, pc>>
    /\ UNCHANGED <<TIMER_ID, LOCK, timers, id, self, timeouts, guards, in_irq,
                   hw, writes>>
    /\ UNCHANGED elapsed

\* line 59: let id = TIMER_ID.read();
Timeout_new_59(c) ==
    /\ Running(c)
    /\ pc[c] = "new_59"
    /\ id' = [id EXCEPT ![c] = TIMER_ID]
    /\ pc' = [pc EXCEPT ![c] = "new_60"]
    /\ UNCHANGED <<TIMER_ID, TIMEOUT_LOCK, LOCK, timers, self, timeouts, guards,
                   in_irq, hw, writes, ret>>
    /\ UNCHANGED elapsed

\* a Timeout::new that does not move the guard into the Timeout: the guard
\* is dropped, and the lock released, when new returns
Timeout_new_60_GuardNotKept(c) ==
    /\ Running(c)
    /\ pc[c] = "new_60"
    /\ timeouts' = [timeouts EXCEPT ![c] = Append(@, MakeTimeout(id[c]))]
    /\ TIMEOUT_LOCK' = FALSE
    /\ id' = [id EXCEPT ![c] = "None"]
    /\ pc' = [pc EXCEPT ![c] = "idle"]
    /\ ret' = Ret("Timeout::new", c, 0, id[c] # "None", 0, "Ok")
    /\ UNCHANGED <<TIMER_ID, LOCK, timers, self, guards, in_irq, hw, writes>>
    /\ UNCHANGED elapsed

\* a Timeout::new that reads TIMER_ID again for each field instead of using
\* the local id
Timeout_new_60_Reread(c) ==
    /\ Running(c)
    /\ pc[c] = "new_60"
    /\ timeouts' = [timeouts EXCEPT ![c] =
                       Append(@, [active |-> id[c] # "None",
                                  timer_l |-> TimerLOf(id[c]),
                                  timer_h |-> TimerHOf(TIMER_ID)])]
    /\ id' = [id EXCEPT ![c] = "None"]
    /\ pc' = [pc EXCEPT ![c] = "idle"]
    /\ ret' = Ret("Timeout::new", c, 0, id[c] # "None", 0, "Ok")
    /\ UNCHANGED <<TIMER_ID, TIMEOUT_LOCK, LOCK, timers, self, guards, in_irq,
                   hw, writes>>
    /\ UNCHANGED elapsed

\* a Timeout::new that arms the unit it binds to
Timeout_new_60_Arms(c) ==
    /\ Running(c)
    /\ pc[c] = "new_60"
    /\ timeouts' = [timeouts EXCEPT ![c] = Append(@, MakeTimeout(id[c]))]
    /\ timers' = VolWrite(timers, TimerHOf(id[c]), timer_ctl)
    /\ id' = [id EXCEPT ![c] = "None"]
    /\ pc' = [pc EXCEPT ![c] = "idle"]
    /\ ret' = Ret("Timeout::new", c, 0, id[c] # "None", 0, "Ok")
    /\ UNCHANGED <<TIMER_ID, TIMEOUT_LOCK, LOCK, self, guards, in_irq, hw, writes>>
    /\ UNCHANGED elapsed

\* lines 60-77: Ok(Timeout { _lock_guard, active, timer_l, timer_h })
Timeout_new_60(c) ==
    /\ Running(c)
    /\ pc[c] = "new_60"
    /\ timeouts' = [timeouts EXCEPT ![c] = Append(@, MakeTimeout(id[c]))]
    /\ id' = [id EXCEPT ![c] = "None"]
    /\ pc' = [pc EXCEPT ![c] = "idle"]
    /\ ret' = Ret("Timeout::new", c, 0, id[c] # "None", 0, "Ok")
    /\ UNCHANGED <<TIMER_ID, TIMEOUT_LOCK, LOCK, timers, self, guards, in_irq,
                   hw, writes>>
    /\ UNCHANGED elapsed

\* lines 82-83: if self.active { self.timer_l.write(0);
Timeout_start(c, i) ==
    /\ CanCall(c)
    /\ i \in 1 .. Len(timeouts[c])
    /\ IF timeouts[c][i].active
       THEN /\ timers' = VolWrite(timers, timeouts[c][i].timer_l, 0)
            /\ writes' = <<<<timeouts[c][i].timer_l, 0>>>>
            /\ self' = [self EXCEPT ![c] = timeouts[c][i]]
            /\ pc' = [pc EXCEPT ![c] = "start_87"]
            /\ UNCHANGED ret
       ELSE /\ ret' = Ret("Timeout::start", c, 0, FALSE, 0, "unit")
            /\ UNCHANGED <<timers, writes, self, pc>>
    /\ UNCHANGED <<TIMER_ID, TIMEOUT_LOCK, LOCK, id, timeouts, guards, in_irq, hw>>
    /\ UNCHANGED elapsed

\* a start() without the write of the cleared setting
Timeout_start_87_Skip(c) ==
    /\ Running(c)
    /\ pc[c] = "start_87"
    /\ pc' = [pc EXCEPT ![c] = "start_88"]
    /\ UNCHANGED <<TIMER_ID, TIMEOUT_LOCK, LOCK, timers, id, self, timeouts,
                   guards, in_irq, hw, writes, ret>>
    /\ UNCHANGED elapsed

\* a start() that writes the armed setting at line 87 already
Timeout_start_87_Armed(c) ==
    /\ Running(c)
    /\ pc[c] = "start_87"
    /\ timers' = VolWrite(timers, self[c].timer_h, timer_ctl)
    /\ writes' = Append(writes, <<self[c].timer_h, timer_ctl>>)
    /\ pc' = [pc EXCEPT ![c] = "start_88"]
    /\ UNCHANGED <<TIMER_ID, TIMEOUT_LOCK, LOCK, id, self, timeouts, guards,
                   in_irq, hw, ret>>
    /\ UNCHANGED elapsed

\* line 87: self.timer_h.write(TimerControlSetting::new());
Timeout_start_87(c) ==
    /\ Running(c)
    /\ pc[c] = "start_87"
    /\ timers' = VolWrite(timers, self[c].timer_h, TimerControlSetting_new)
    /\ writes' = Append(writes, <<self[c].timer_h, TimerControlSetting_new>>)
    /\ pc' = [pc EXCEPT ![c] = "start_88"]
    /\ UNCHANGED <<TIMER_ID, TIMEOUT_LOCK, LOCK, id, self, timeouts, guards,
                   in_irq, hw, ret>>
    /\ UNCHANGED elapsed

\* a start() that arms the unit the registry selects now instead of the one
\* the Timeout was bound to
Timeout_start_88_ViaRegistry(c) ==
    /\ Running(c)
    /\ pc[c] = "start_88"
    /\ timers' = VolWrite(timers, TimerHOf(TIMER_ID), timer_ctl)
    /\ writes' = <<>>
    /\ pc' = [pc EXCEPT ![c] = "idle"]
    /\ self' = [self EXCEPT ![c] = NoSelf]
    /\ ret' = [Ret("Timeout::start", c, 0, TRUE, 0, "unit") EXCEPT
                  !.writes = Append(writes, <<TimerHOf(TIMER_ID), timer_ctl>>)]
    /\ UNCHANGED <<TIMER_ID, TIMEOUT_LOCK, LOCK, id, timeouts, guards, in_irq, hw>>
    /\ elapsed' = 0

\* line 88: self.timer_h.write(timer_ctl);
Timeout_start_88(c) ==
    /\ Running(c)
    /\ pc[c] = "start_88"
    /\ timers' = VolWrite(timers, self[c].timer_h, timer_ctl)
    /\ writes' = <<>>
    /\ pc' = [pc EXCEPT ![c] = "idle"]
    /\ self' = [self EXCEPT ![c] = NoSelf]
    /\ ret' = [Ret("Timeout::start", c, 0, TRUE, 0, "unit") EXCEPT
                  !.writes = Append(writes, <<self[c].timer_h, timer_ctl>>)]
    /\ UNCHANGED <<TIMER_ID, TIMEOUT_LOCK, LOCK, id, timeouts, guards, in_irq, hw>>
    /\ elapsed' = 0

\* an is_timeout_met without the test of self.active
Timeout_is_timeout_met_NoActive(c, i, check_ms) ==
    /\ CanCall(c)
    /\ i \in 1 .. Len(timeouts[c])
    /\ \E m \in MulU16(check_ms, TicksPerMs) :
          IF m.panic
          THEN ret' = Ret("Timeout::is_timeout_met", c, check_ms,
                          timeouts[c][i].active, 0, "panic")
          ELSE \E v \in VolRead(timers, timeouts[c][i].timer_l) :
                 ret' = Ret("Timeout::is_timeout_met", c, check_ms,
                            timeouts[c][i].active, v,
                            IF m.value < v THEN "true" ELSE "false")
    /\ UNCHANGED <<TIMER_ID, TIMEOUT_LOCK, LOCK, timers, pc, id, self, timeouts,
                   guards, in_irq, hw, writes>>
    /\ UNCHANGED elapsed

\* an is_timeout_met that compares with <= instead of <
Timeout_is_timeout_met_Le(c, i, check_ms) ==
    /\ CanCall(c)
    /\ i \in 1 .. Len(timeouts[c])
    /\ IF timeouts[c][i].active
       THEN \E m \in MulU16(check_ms, TicksPerMs) :
              IF m.panic
              THEN ret' = Ret("Timeout::is_timeout_met", c, check_ms, TRUE, 0, "panic")
              ELSE \E v \in VolRead(timers, timeouts[c][i].timer_l) :
                     ret' = Ret("Timeout::is_timeout_met", c, check_ms, TRUE, v,
                                IF m.value <= v THEN "true" ELSE "false")
       ELSE ret' = Ret("Timeout::is_timeout_met", c, check_ms, FALSE, 0, "false")
    /\ UNCHANGED <<TIMER_ID, TIMEOUT_LOCK, LOCK, timers, pc, id, self, timeouts,
                   guards, in_irq, hw, writes>>
    /\ UNCHANGED elapsed

\* line 95: self.active && check_ms * 17 < self.timer_l.read()
Timeout_is_timeout_met(c, i, check_ms) ==
    /\ CanCall(c)
    /\ i \in 1 .. Len(timeouts[c])
    /\ IF timeouts[c][i].active
       THEN \E m \in MulU16(check_ms, TicksPerMs) :
              IF m.panic
              THEN ret' = Ret("Timeout::is_timeout_met", c, check_ms, TRUE, 0, "panic")
              ELSE \E v \in VolRead(timers, timeouts[c][i].timer_l) :
                     ret' = Ret("Timeout::is_timeout_met", c, check_ms, TRUE, v,
                                IF m.value < v THEN "true" ELSE "false")
       ELSE ret' = Ret("Timeout::is_timeout_met", c, check_ms, FALSE, 0, "false")
    /\ UNCHANGED <<TIMER_ID, TIMEOUT_LOCK, LOCK, timers, pc, id, self, timeouts,
                   guards, in_irq, hw, writes>>
    /\ UNCHANGED elapsed

\* a drop of Timeout that also stops the unit the Timeout is bound to
Timeout_drop_Disarm(c, i) ==
    /\ CanCall(c)
    /\ i \in 1 .. Len(timeouts[c])
    /\ timeouts' = [timeouts EXCEPT ![c] = RemoveAt(@, i)]
    /\ TIMEOUT_LOCK' = FALSE
    /\ timers' = VolWrite(timers, timeouts[c][i].timer_h, TimerControlSetting_new)
    /\ UNCHANGED <<TIMER_ID, LOCK, pc, id, self, guards, in_irq, hw, writes, ret>>
    /\ elapsed' = NotStarted

\* a Timeout goes out of scope: its _lock_guard unlocks TIMEOUT_LOCK
Timeout_drop(c, i) ==
    /\ CanCall(c)
    /\ i \in 1 .. Len(timeouts[c])
    /\ timeouts' = [timeouts EXCEPT ![c] = RemoveAt(@, i)]
    /\ TIMEOUT_LOCK' = FALSE
    /\ UNCHANGED <<TIMER_ID, LOCK, timers, pc, id, self, guards, in_irq, hw,
                   writes, ret>>
    /\ elapsed' = NotStarted

(* ----------------------------- media lock ------------------------------ *)
\* a lock_media that hands out a guard whatever try_lock returns
lock_media_NoCheck(c) ==
    /\ CanCall(c)
    /\ LOCK' = TRUE
    /\ guards' = [guards EXCEPT ![c] = @ + 1]
    /\ ret' = Ret("lock_media", c, 0, FALSE, 0, "Ok")
    /\ UNCHANGED <<TIMER_ID, TIMEOUT_LOCK, timers, pc, id, self, timeouts, in_irq,
                   hw, writes>>
    /\ UNCHANGED elapsed

\* a lock_media that takes the lock and reports MediaInUse, so that no guard
\* is left to release it
lock_media_Leak(c) ==
    /\ CanCall(c)
    /\ LOCK' = TRUE
    /\ ret' = Ret("lock_media", c, 0, FALSE, 0, "MediaInUse")
    /\ UNCHANGED <<TIMER_ID, TIMEOUT_LOCK, timers, pc, id, self, timeouts, guards,
                   in_irq, hw, writes>>
    /\ UNCHANGED elapsed

\* a lock_media that locks the mutex of Timeout::new instead of its own
lock_media_SharedLock(c) ==
    /\ CanCall(c)
    /\ IF try_lock(TIMEOUT_LOCK)
       THEN /\ TIMEOUT_LOCK' = TRUE
            /\ guards' = [guards EXCEPT ![c] = @ + 1]
            /\ ret' = Ret("lock_media", c, 0, FALSE, 0, "Ok")
       ELSE /\ ret' = Ret("lock_media", c, 0, FALSE, 0, "MediaInUse")
            /\ UNCHANGED <<TIMEOUT_LOCK, guards>>
    /\ UNCHANGED <<TIMER_ID, LOCK, timers, pc, id, self, timeouts, in_irq,
                   hw, writes>>
    /\ UNCHANGED elapsed

\* pub fn lock_media() -> Result<RawMutexGuard<'static>, Error>
lock_media(c) ==
    /\ CanCall(c)
    /\ IF try_lock(LOCK)
       THEN /\ LOCK' = TRUE
            /\ guards' = [guards EXCEPT ![c] = @ + 1]
            /\ ret' = Ret("lock_media", c, 0, FALSE, 0, "Ok")
       ELSE /\ ret' = Ret("lock_media", c, 0, FALSE, 0, "MediaInUse")
            /\ UNCHANGED <<LOCK, guards>>
    /\ UNCHANGED <<TIMER_ID, TIMEOUT_LOCK, timers, pc, id, self, timeouts, in_irq,
                   hw, writes>>
    /\ UNCHANGED elapsed

\* the guard returned by lock_media goes out of scope, on any exit path
media_guard_drop(c) ==
    /\ CanCall(c)
    /\ guards[c] > 0
    /\ guards' = [guards EXCEPT ![c] = @ - 1]
    /\ LOCK' = FALSE
    /\ UNCHANGED <<TIMER_ID, TIMEOUT_LOCK, timers, pc, id, self, timeouts, in_irq,
                   hw, writes, ret>>
    /\ UNCHANGED elapsed

(* ------------------------------ interrupts ----------------------------- *)
\* an interrupt preempts the main flow wherever it is
IrqEnter ==
    /\ ~Panicked
    /\ ~in_irq
    /\ in_irq' = TRUE
    /\ UNCHANGED <<TIMER_ID, TIMEOUT_LOCK, LOCK, timers, pc, id, self, timeouts,
                   guards, hw, writes, ret>>
    /\ UNCHANGED elapsed

\* the handler returns once its calls are finished and its locals are dropped
IrqReturn ==
    /\ ~Panicked
    /\ in_irq
    /\ pc["irq"] = "idle"
    /\ timeouts["irq"] = <<>>
    /\ guards["irq"] = 0
    /\ in_irq' = FALSE
    /\ UNCHANGED <<TIMER_ID, TIMEOUT_LOCK, LOCK, timers, pc, id, self, timeouts,
                   guards, hw, writes, ret>>
    /\ UNCHANGED elapsed

(* ------------------------------- hardware ------------------------------ *)
\* some Timeout, live or running start(), is bound to unit u
Bound(u) ==
    \E c \in Ctx :
        \/ \E i \in 1 .. Len(timeouts[c]) : timeouts[c][i].timer_l = TMCNT_L(u)
        \/ self[c].timer_l = TMCNT_L(u)

\* An enabled unit counts d ticks; on overflow it continues from the latch.
\* Ticks of a unit no Timeout is bound to commute with every step of the
\* program (none reads or writes that unit), so they are taken once the unit
\* is bound.
HardwareTick(u, d) ==
    /\ hw < MaxHw
    /\ Bound(u)
    /\ timers[u].ctl.enabled
    /\ hw' = hw + 1
    /\ timers' = [timers EXCEPT ![u].counter =
                     IF @ + d < U16Mod THEN @ + d
                     ELSE (timers[u].reload + @ + d - U16Mod) % U16Mod]
    /\ UNCHANGED <<TIMER_ID, TIMEOUT_LOCK, LOCK, pc, id, self, timeouts, guards,
                   in_irq, writes, ret>>
    /\ elapsed' = IF elapsed = NotStarted THEN NotStarted ELSE elapsed + d

\* what other code of the game leaves in a unit it used: a reload value and
\* a running control setting of its own
StaleReload == U16Mod - 1
StaleControl == with_enabled(with_tick_rate(TimerControlSetting_new, "CPU64"), TRUE)

\* Other code programs the unit the registry selects, while no Timeout is
\* bound to it (the earlier use a later Timeout finds in the registers).
OtherUse(u) ==
    /\ hw < MaxHw
    /\ TIMER_ID = TimerIdOfIndex(u)
    /\ ~Bound(u)
    /\ hw' = hw + 1
    /\ timers' = VolWrite(VolWrite(timers, TMCNT_L(u), StaleReload),
                          TMCNT_H(u), StaleControl)
    /\ UNCHANGED <<TIMER_ID, TIMEOUT_LOCK, LOCK, pc, id, self, timeouts, guards,
                   in_irq, writes, ret>>
    /\ UNCHANGED elapsed

(* ---------------------------- specifications --------------------------- *)
\* one step of the program in context c
ProgramStep(c) ==
    \/ \E i \in IdArgs : set_timer_for_timeout(c, i)
    \/ disable_timeout(c)
    \/ Timeout_new_55(c)
    \/ Timeout_new_59(c)
    \/ Timeout_new_60(c)
    \/ \E i \in 1 .. MaxOwned : Timeout_start(c, i)
    \/ Timeout_start_87(c)
    \/ Timeout_start_88(c)
    \/ \E i \in 1 .. MaxOwned, ms \in CheckMsArgs : Timeout_is_timeout_met(c, i, ms)
    \/ \E i \in 1 .. MaxOwned : Timeout_drop(c, i)
    \/ lock_media(c)
    \/ media_guard_drop(c)

\* the program under interrupt preemption
Next ==
    \/ \E c \in Ctx : ProgramStep(c)
    \/ IrqEnter
    \/ IrqReturn

Spec == Init /\ [][Next]_vars

\* one step of the life of a watchdog in context c
WatchdogStep(c) ==
    \/ Timeout_new_55(c)
    \/ Timeout_new_59(c)
    \/ Timeout_new_60(c)
    \/ \E i \in 1 .. MaxOwned : Timeout_start(c, i)
    \/ Timeout_start_87(c)
    \/ Timeout_start_88(c)
    \/ \E i \in 1 .. MaxOwned, ms \in WideMsArgs : Timeout_is_timeout_met(c, i, ms)
    \/ \E i \in 1 .. MaxOwned : Timeout_drop(c, i)

\* the driver configures the registry once, before anything else
Configure(c) ==
    /\ ret = NoRet
    /\ \/ \E i \in IdArgs : set_timer_for_timeout(c, i)
       \/ disable_timeout(c)

\* The main flow as the driver runs it: the registry is configured once, then
\* watchdogs are made, started, polled and dropped while the timer hardware
\* runs and other code may have used the selected unit before.
NextTimer ==
    \/ Configure("main")
    \/ WatchdogStep("main")
    \/ \E u \in Units, d \in TickSteps : HardwareTick(u, d)
    \/ \E u \in Units : OtherUse(u)

SpecTimer == Init /\ [][NextTimer]_vars

\* one step of an acquisition or of a release in context c
LockStep(c) ==
    \/ Timeout_new_55(c)
    \/ Timeout_new_59(c)
    \/ Timeout_new_60(c)
    \/ \E i \in 1 .. MaxOwned : Timeout_drop(c, i)
    \/ lock_media(c)
    \/ media_guard_drop(c)

\* the steps of a call of context c that has begun and not returned
InCall(c) == Timeout_new_59(c) \/ Timeout_new_60(c)

\* the two locks under interrupt preemption
NextLock ==
    \/ \E c \in Ctx : LockStep(c)
    \/ IrqEnter
    \/ IrqReturn

\* The CPU executes the next instruction of the context that has it: the
\* handler is never preempted, and the main flow goes on whenever no handler
\* runs.
SpecLock ==
    /\ Init
    /\ [][NextLock]_vars
    /\ WF_vars(InCall("irq"))
    /\ SF_vars(InCall("main"))

(* ------------------------------ properties ---------------------------- *)
\* contexts whose Timeout::new holds the lock guard and has not returned yet
UnderConstruction == {c \in Ctx : pc[c] \in {"new_59", "new_60"}}
\* Timeout values in existence
LiveTimeouts == Len(timeouts["main"]) + Len(timeouts["irq"])
\* watchdogs in existence or being constructed
Watchdogs == LiveTimeouts + Cardinality(UnderConstruction)
\* media lock guards in existence
MediaGuards == guards["main"] + guards["irq"]

NewFailed(c) == ret = Ret("Timeout::new", c, 0, FALSE, 0, "MediaInUse")
LockMediaFailed(c) == ret = Ret("lock_media", c, 0, FALSE, 0, "MediaInUse")
LockMediaOk(c) == ret = Ret("lock_media", c, 0, FALSE, 0, "Ok")

\* C1: in every reachable state at most one Watchdog exists, counting the
\* Timeout values alive and those a Timeout::new in progress is constructing,
\* whatever the interleaving of the main flow and the interrupt handler.
C1_AtMostOneWatchdog == Watchdogs <= 1

\* the handler re-entered Timeout::new while the main flow was inside
\* Timeout::new, and was turned away
C1_Witness ==
    /\ pc["main"] = "new_59"
    /\ in_irq
    /\ NewFailed("irq")
    /\ Watchdogs = 1

\* C2: Timeout::new fails with MediaInUse exactly when a Watchdog is alive
\* (constructed, or under construction by an interrupted Timeout::new) and
\* acquires the lock exactly when none is, on every call of every
\* construct/drop cycle.
C2_NewFailsIffAlive ==
    [][\A c \in Ctx :
          Timeout_new_55(c) =>
              /\ (pc'[c] = "new_59") <=> (Watchdogs = 0)
              /\ (NewFailed(c)' /\ pc'[c] = "idle") <=> (Watchdogs >= 1)]_vars

\* a second Timeout::new was refused while the first Timeout is alive
C2_Witness ==
    /\ Len(timeouts["main"]) = 1
    /\ pc["main"] = "idle"
    /\ ~in_irq
    /\ NewFailed("main")

\* C3: in every reachable state at most one media lock guard exists.
C3_AtMostOneMediaGuard == MediaGuards <= 1

\* the handler called lock_media while the main flow holds the guard
C3_Witness ==
    /\ guards["main"] = 1
    /\ in_irq
    /\ LockMediaFailed("irq")

\* C4: lock_media returns a guard exactly when no media guard exists and
\* fails with MediaInUse exactly when one exists, and the lock is held only
\* while a guard is alive: once the guard is dropped the lock is free.
C4_MediaLockFollowsGuard ==
    /\ [](LOCK <=> (MediaGuards >= 1))
    /\ [][\A c \in Ctx :
             lock_media(c) =>
                 /\ (LockMediaOk(c)' /\ guards'[c] = guards[c] + 1) <=> (MediaGuards = 0)
                 /\ (LockMediaFailed(c)' /\ guards' = guards) <=> (MediaGuards >= 1)]_vars

\* the guard was dropped after a refused attempt: the lock is free again
C4_Witness ==
    /\ LockMediaFailed("main")
    /\ MediaGuards = 0
    /\ ~LOCK

\* C5: the two locks are independent.  Timeout::new succeeds exactly when
\* TIMEOUT_LOCK is free, with and without a media guard, and touches neither
\* LOCK nor the guards; lock_media succeeds exactly when LOCK is free, with
\* and without a Watchdog, and touches neither TIMEOUT_LOCK nor the Timeouts.
C5_LocksIndependent ==
    [][\A c \in Ctx :
          /\ Timeout_new_55(c) =>
                /\ (pc'[c] = "new_59") <=> (Watchdogs = 0)
                /\ UNCHANGED <<LOCK, guards>>
          /\ lock_media(c) =>
                /\ LockMediaOk(c)' <=> (MediaGuards = 0)
                /\ UNCHANGED <<TIMEOUT_LOCK, timeouts, pc>>]_vars

\* a Watchdog and a media guard are held together, the guard taken last
C5_Witness ==
    /\ LiveTimeouts = 1
    /\ MediaGuards = 1
    /\ LockMediaOk("main")

\* the unit a register handle belongs to
UnitOf(addr) == CHOOSE u \in Units : addr \in {TMCNT_L(u), TMCNT_H(u)}
\* the step on which Timeout::new of context c returns its Timeout
Constructs(c) == pc[c] = "new_60" /\ pc'[c] = "idle"
\* the Timeout that step returns
Constructed(c) == timeouts'[c][Len(timeouts'[c])]
\* the step on which start() of context c returns, having written
StartReturns(c) == pc[c] = "start_88" /\ pc'[c] = "idle"
\* a unit as start() is to leave it
Armed == [reload |-> 0, counter |-> 0, ctl |-> timer_ctl]

\* C6: when set_timer_for_timeout(id) with id in 0..3 is the last call to
\* have completed before a context's Timeout::new, and stays the last one,
\* the Timeout returned is active and holds the counter and control handles
\* of unit id; the call panics exactly when id >= 4.
C6_SetThenNewBindsUnit ==
    [][/\ \A c \in Ctx :
            (/\ Constructs(c)
             /\ ret.op = "set_timer_for_timeout"
             /\ ret.ctx = c
             /\ ret.val = "unit")
            => /\ ret.arg \in Units
               /\ Constructed(c) = [active |-> TRUE,
                                    timer_l |-> TMCNT_L(ret.arg),
                                    timer_h |-> TMCNT_H(ret.arg)]
       /\ \A c \in Ctx, i \in IdArgs :
            set_timer_for_timeout(c, i) =>
                (i >= NumTimers) <=> Panicked']_vars

\* set_timer_for_timeout(3) and then Timeout::new gave a Timeout on unit 3
C6_Witness ==
    /\ ret = Ret("Timeout::new", "main", 0, TRUE, 0, "Ok")
    /\ TIMER_ID = "T3"
    /\ timeouts["main"] =
          <<[active |-> TRUE, timer_l |-> TMCNT_L(3), timer_h |-> TMCNT_H(3)]>>

\* C7: a Timeout constructed right after disable_timeout(), or before any
\* call at all, or whenever Timeout::new finds TIMER_ID at None, is inactive
\* and holds the placeholder address twice; on an inactive Timeout
\* is_timeout_met returns false for every check_ms, whatever the units armed
\* earlier hold, and start() writes no register.
C7_DisabledWatchdogInert ==
    /\ [](ret.op = "Timeout::is_timeout_met" /\ ~ret.active => ret.val = "false")
    /\ [](ret.op = "Timeout::start" /\ ~ret.active => ret.writes = <<>>)
    /\ [][\A c \in Ctx :
             /\ (/\ Constructs(c)
                 /\ \/ ret = Ret("disable_timeout", c, 0, FALSE, 0, "unit")
                    \/ ret = NoRet)
                => Constructed(c) = NoSelf
             /\ (pc[c] = "new_59" /\ pc'[c] = "new_60" /\ TIMER_ID = "None")
                => id'[c] = "None"
             /\ (Constructs(c) /\ id[c] = "None") => Constructed(c) = NoSelf
             /\ \A i \in 1 .. MaxOwned :
                  (Timeout_start(c, i) /\ ~timeouts[c][i].active)
                  => UNCHANGED <<timers, writes, pc>>]_vars

\* after a unit was armed the registry was disabled, and is_timeout_met of
\* the Timeout made then was asked about a threshold that overflows
C7_Witness ==
    /\ ret = Ret("Timeout::is_timeout_met", "main", OverflowMs, FALSE, 0, "false")
    /\ TIMER_ID = "None"
    /\ \E u \in Units : timers[u].ctl.enabled

\* C8: on an active Timeout is_timeout_met(check_ms) returns true if and only
\* if the counter value v it reads exceeds check_ms * 17, for every 16-bit
\* check_ms and v.
C8_TimeoutMetIffExceeds ==
    (ret.op = "Timeout::is_timeout_met" /\ ret.active)
    => ret.val = (IF ret.v > ret.arg * TicksPerMs THEN "true" ELSE "false")

\* C9: whenever start() returns on an active Timeout, whatever the unit held
\* before (a reload value, a running counter, a control setting of other
\* code or of an earlier start()), the unit has counter 0 and the armed
\* control setting, so that a second start() leaves what the first left.
C9_StartLeavesUnitArmed ==
    [][\A c \in Ctx :
          StartReturns(c) => timers'[UnitOf(self[c].timer_l)] = Armed]_vars

\* start() returned on a unit that other code had left running and that
\* has ticked since
C9_Witness ==
    /\ ret.op = "Timeout::start"
    /\ ret.active
    /\ hw >= 2
    /\ \E u \in Units : Bound(u) /\ timers[u] = Armed

\* C10: a Timeout keeps the active flag and the handles it was constructed
\* with.  No registry call, by the main flow or the handler, changes a live
\* Timeout or the one a start() is running on; Timeout::new reads the
\* selector once, at line 59; start() writes the registers of the handles of
\* the Timeout it was called on and is_timeout_met reads the counter of its
\* timer_l, whatever TIMER_ID has become.
C10_SnapshotAtConstruction ==
    [][\A c \in Ctx :
          /\ ((\E i \in IdArgs : set_timer_for_timeout(c, i)) \/ disable_timeout(c))
             => UNCHANGED <<timeouts, self, id>>
          /\ (pc[c] = "new_59" /\ pc'[c] = "new_60") => id'[c] = TIMER_ID
          /\ Constructs(c) => Constructed(c) = MakeTimeout(id[c])
          /\ StartReturns(c) =>
                \E i \in 1 .. Len(timeouts[c]) :
                    ret'.writes = <<<<timeouts[c][i].timer_l, 0>>,
                                    <<timeouts[c][i].timer_h, TimerControlSetting_new>>,
                                    <<timeouts[c][i].timer_h, timer_ctl>>>>
          /\ \A i \in 1 .. MaxOwned, ms \in CheckMsArgs :
                (Timeout_is_timeout_met(c, i, ms) /\ timeouts[c][i].active /\ ~Panicked')
                => ret'.v = timers[UnitOf(timeouts[c][i].timer_l)].counter]_vars

\* the handler moved the registry to unit 1 while start() of a Timeout bound
\* to unit 0 was between its writes
C10_Witness ==
    /\ pc["main"] = "start_88"
    /\ self["main"].timer_l = TMCNT_L(0)
    /\ ret = Ret("set_timer_for_timeout", "irq", 1, FALSE, 0, "unit")
    /\ TIMER_ID = "T1"
    /\ ~in_irq

\* own steps Timeout::new still has to take from a line
StepsLeft(l) ==
    CASE l = "new_59" -> 2
      [] l = "new_60" -> 1
      [] OTHER -> 0

\* C11: Timeout::new and lock_media never wait.  Wherever a context may call
\* them the call can be made, lock held or not; lock_media returns Ok or
\* MediaInUse on that step, and Timeout::new returns MediaInUse on it or goes
\* on; a Timeout::new that went on can always take its next step when its
\* context has the CPU, each step brings it closer to its return, and it
\* returns, however long the other context keeps its locks: in the handler
\* always, in the main flow unless a handler keeps the CPU for ever.
C11_AcquisitionNeverBlocks ==
    /\ [](\A c \in Ctx :
            /\ CanCall(c) => (ENABLED Timeout_new_55(c) /\ ENABLED lock_media(c))
            /\ (Running(c) /\ pc[c] # "idle") => ENABLED InCall(c))
    /\ [][\A c \in Ctx :
             /\ lock_media(c) => (pc'[c] = "idle" /\ (LockMediaOk(c)' \/ LockMediaFailed(c)'))
             /\ Timeout_new_55(c) =>
                   \/ pc'[c] = "idle" /\ NewFailed(c)'
                   \/ pc'[c] = "new_59"
             /\ (pc[c] # "idle" /\ pc'[c] # pc[c])
                => StepsLeft(pc'[c]) < StepsLeft(pc[c])]_vars
    /\ (pc["irq"] # "idle") ~> (pc["irq"] = "idle")
    /\ ([]<>(~in_irq)) => ((pc["main"] # "idle") ~> (pc["main"] = "idle"))

\* the handler was refused both locks, held by the code it interrupted, and
\* is between calls
C11_Witness ==
    /\ in_irq
    /\ pc["irq"] = "idle"
    /\ Len(timeouts["main"]) = 1
    /\ guards["main"] = 1
    /\ LockMediaFailed("irq")
    /\ TIMEOUT_LOCK

\* the three writes of start() on the Timeout t, in program order
StartWrites(t) ==
    <<<<t.timer_l, 0>>,
      <<t.timer_h, TimerControlSetting_new>>,
      <<t.timer_h, timer_ctl>>>>

\* C12: start() on an active Timeout makes exactly three register writes, in
\* this order: 0 to its counter register, the cleared setting to its control
\* register, the armed setting (CPU1024, enabled) to its control register.
\* So when the armed setting is written the unit holds reload value 0 and a
\* disabled, cleared control register, whatever it held before start().
C12_StartWritesInOrder ==
    /\ [](\A c \in Ctx :
            /\ pc[c] = "start_87" =>
                  /\ writes = SubSeq(StartWrites(self[c]), 1, 1)
                  /\ timers[UnitOf(self[c].timer_l)].reload = 0
            /\ pc[c] = "start_88" =>
                  /\ writes = SubSeq(StartWrites(self[c]), 1, 2)
                  /\ timers[UnitOf(self[c].timer_l)].reload = 0
                  /\ timers[UnitOf(self[c].timer_h)].ctl = TimerControlSetting_new)
    /\ [](ret.op = "Timeout::start" /\ ret.active => Len(ret.writes) = 3)
    /\ [][\A c \in Ctx :
             /\ \A i \in 1 .. MaxOwned :
                   (Timeout_start(c, i) /\ timeouts[c][i].active)
                   => (pc'[c] = "start_87" /\ self'[c] = timeouts[c][i])
             /\ pc[c] = "start_87" /\ pc'[c] # pc[c] => pc'[c] = "start_88"
             /\ StartReturns(c) =>
                   /\ ret'.writes = StartWrites(self[c])
                   /\ self[c].active
                   /\ timers'[UnitOf(self[c].timer_h)].ctl = timer_ctl]_vars

\* start() is about to arm a unit that other code had left running: the
\* control register is cleared while the counter still shows the stale count
C12_Witness ==
    /\ pc["main"] = "start_88"
    /\ Len(writes) = 2
    /\ \E u \in Units :
          /\ self["main"].timer_h = TMCNT_H(u)
          /\ timers[u].ctl = TimerControlSetting_new
          /\ timers[u].counter # 0

\* C13: dropping a Timeout releases TIMEOUT_LOCK, which was held, removes
\* that Timeout and changes nothing else: TIMER_ID, the media lock and its
\* guards, the other Timeouts and every timer unit are as before, so a unit
\* armed by start() is still enabled once its Timeout is gone.
C13_DropOnlyReleasesLock ==
    [][\A c \in Ctx, i \in 1 .. MaxOwned :
          Timeout_drop(c, i) =>
              /\ TIMEOUT_LOCK
              /\ ~TIMEOUT_LOCK'
              /\ Len(timeouts'[c]) = Len(timeouts[c]) - 1
              /\ \A d \in Ctx \ {c} : timeouts'[d] = timeouts[d]
              /\ UNCHANGED <<TIMER_ID, LOCK, guards, timers, pc, id, self, in_irq,
                             writes, ret>>
              /\ \A u \in Units :
                    timeouts[c][i].timer_h = TMCNT_H(u) =>
                        timers'[u].ctl.enabled = timers[u].ctl.enabled]_vars

\* the Timeout whose start() armed unit 2 was dropped while a media guard is
\* held: the lock is free and the unit still runs
C13_Witness ==
    /\ LiveTimeouts = 0
    /\ UnderConstruction = {}
    /\ ~TIMEOUT_LOCK
    /\ ret.op = "Timeout::start"
    /\ ret.active
    /\ ret.writes[3] = <<TMCNT_H(2), timer_ctl>>
    /\ timers[2].ctl = timer_ctl
    /\ TIMER_ID = "T2"
    /\ LOCK

\* a Timeout whose three fields agree
Consistent(t) ==
    /\ ~t.active <=> (t.timer_l = NullAddress /\ t.timer_h = NullAddress)
    /\ t.active => \E u \in Units : t.timer_l = TMCNT_L(u) /\ t.timer_h = TMCNT_H(u)

\* C14: in every reachable state every live Timeout, and the one a start()
\* is running on, is consistent: it is inactive exactly when both handles
\* are the placeholder address, and when it is active its counter handle and
\* its control handle are registers of one and the same unit.  This holds
\* also when the handler changes TIMER_ID while Timeout::new is between its
\* lines.
C14_LiveTimeoutConsistent ==
    \A c \in Ctx :
        /\ \A i \in 1 .. Len(timeouts[c]) : Consistent(timeouts[c][i])
        /\ Consistent(self[c])

\* the handler moved the registry from unit 0 to unit 1 after Timeout::new
\* of the main flow had read it: the Timeout returned is bound to unit 0
C14_Witness ==
    /\ ret = Ret("Timeout::new", "main", 0, TRUE, 0, "Ok")
    /\ TIMER_ID = "T1"
    /\ timeouts["main"] = <<MakeTimeout("T0")>>
    /\ ~in_irq

\* C15: a call fails in two ways only.  It panics only in
\* set_timer_for_timeout with id >= 4, and it returns MediaInUse only from
\* Timeout::new and lock_media; disable_timeout, start and is_timeout_met,
\* for every 16-bit check_ms, return normally.
C15_OnlyTwoFailureModes ==
    /\ Panicked => (ret.op = "set_timer_for_timeout" /\ ret.arg >= NumTimers)
    /\ ret.val = "MediaInUse" => ret.op \in {"Timeout::new", "lock_media"}
    /\ ret.op \in {"disable_timeout", "Timeout::start"} => ret.val = "unit"
    /\ ret.op = "Timeout::is_timeout_met" => ret.val \in {"true", "false"}

\* "true" or "false" as is_timeout_met returns them
BoolVal(b) == IF b THEN "true" ELSE "false"

\* C16: the counter has 16 bits and goes on from 0 after 65535.  On an
\* active Timeout whose start() has returned, with check_ms * 17 < 65535,
\* is_timeout_met(check_ms) answers for the ticks counted since start()
\* taken modulo 65536.  While fewer than 65536 ticks were counted the answer
\* is whether more than check_ms * 17 ticks have elapsed, so it stays true
\* once true; after that many it can be false although more than
\* check_ms * 17 ticks have elapsed since start().
C16_AnswerFollowsWrappedCount ==
    [][\A c \in Ctx, i \in 1 .. MaxOwned :
          LET ms == ret'.arg
          IN  (/\ ret'.op = "Timeout::is_timeout_met"
               /\ ms \in WideMsArgs
               /\ Timeout_is_timeout_met(c, i, ms)
               /\ timeouts[c][i].active
               /\ elapsed # NotStarted
               /\ ms * TicksPerMs < U16Mod - 1)
              => /\ ret'.v = elapsed % U16Mod
                 /\ ret'.val = BoolVal(elapsed % U16Mod > ms * TicksPerMs)
                 /\ elapsed < U16Mod => ret'.val = BoolVal(elapsed > ms * TicksPerMs)]_vars

\* 17 and then 65535 ticks after start(), is_timeout_met(1) read 16 from the
\* counter and answered false
C16_Witness ==
    /\ hw = 2
    /\ elapsed = U16Mod + TicksPerMs - 1
    /\ elapsed > 1 * TicksPerMs
    /\ ret = Ret("Timeout::is_timeout_met", "main", 1, TRUE, TicksPerMs - 1, "false")

\* C17: a failed acquisition changes nothing but its own result.  When
\* Timeout::new finds TIMEOUT_LOCK held it returns MediaInUse at once: the
\* lock stays held, the call does not get to the read of TIMER_ID, and
\* TIMER_ID, the timer units, the Timeouts and the media lock are as before.
\* When lock_media finds LOCK held it returns MediaInUse and LOCK and the
\* guards are as before.  The lock is freed by the drop of its holder, and
\* only then.
C17_FailedAcquisitionChangesNothing ==
    /\ [](TIMEOUT_LOCK <=> (Watchdogs = 1))
    /\ [](LOCK <=> (MediaGuards = 1))
    /\ [][\A c \in Ctx :
             /\ (Timeout_new_55(c) /\ TIMEOUT_LOCK)
                => /\ NewFailed(c)'
                   /\ TIMEOUT_LOCK'
                   /\ UNCHANGED <<TIMER_ID, TIMEOUT_LOCK, LOCK, timers, pc, id, self,
                                  timeouts, guards, in_irq, writes, elapsed>>
             /\ (lock_media(c) /\ LOCK)
                => /\ LockMediaFailed(c)'
                   /\ LOCK'
                   /\ UNCHANGED <<TIMER_ID, TIMEOUT_LOCK, LOCK, timers, pc, id, self,
                                  timeouts, guards, in_irq, writes, elapsed>>
             /\ (TIMEOUT_LOCK /\ ~TIMEOUT_LOCK')
                => \E d \in Ctx, i \in 1 .. MaxOwned : Timeout_drop(d, i)
             /\ (LOCK /\ ~LOCK') => \E d \in Ctx : media_guard_drop(d)]_vars

\* the handler's Timeout::new was refused, the handler returned, and the
\* main flow then dropped its Timeout: the lock is free, the media guard
\* taken before is still held
C17_Witness ==
    /\ NewFailed("irq")
    /\ ~in_irq
    /\ Watchdogs = 0
    /\ ~TIMEOUT_LOCK
    /\ guards["main"] = 1
    /\ LOCK

\* C18: TIMER_ID is None at first, and it is what the most recent successful
\* registry call made it: set_timer_for_timeout(id) with id < 4 stores the
\* TimerId of id whatever TIMER_ID was, disable_timeout stores None,
\* set_timer_for_timeout(id) with id >= 4 panics and leaves TIMER_ID as it
\* was, and no other step of the program changes TIMER_ID.
C18_SelectorIsLastSuccessfulCall ==
    /\ TIMER_ID = "None"
    /\ [](/\ (ret.op = "set_timer_for_timeout" /\ ret.val = "unit")
             => (ret.arg \in Units /\ TIMER_ID = TimerIdOfIndex(ret.arg))
          /\ ret.op = "disable_timeout" => TIMER_ID = "None"
          /\ ret = NoRet => TIMER_ID = "None")
    /\ [][/\ \A c \in Ctx, i \in IdArgs :
                set_timer_for_timeout(c, i) =>
                    IF i >= NumTimers
                    THEN Panicked' /\ TIMER_ID' = TIMER_ID
                    ELSE ~Panicked' /\ TIMER_ID' = TimerIdOfIndex(i)
          /\ \A c \in Ctx : disable_timeout(c) => TIMER_ID' = "None"
          /\ TIMER_ID' # TIMER_ID =>
                \E c \in Ctx :
                    \/ \E i \in Units : set_timer_for_timeout(c, i)
                    \/ disable_timeout(c)]_vars

\* set_timer_for_timeout(4) panicked in the handler after unit 2 had been
\* selected: the selector is still T2
C18_Witness ==
    /\ ret = Ret("set_timer_for_timeout", "irq", NumTimers, FALSE, 0, "panic")
    /\ TIMER_ID = "T2"

\* a step of start() of context c that writes a register
StartWriteStep(c) ==
    \/ \E i \in 1 .. MaxOwned : Timeout_start(c, i) /\ timeouts[c][i].active
    \/ Timeout_start_87(c)
    \/ Timeout_start_88(c)

\* the register writes logged by the step, those moved to ret included
NewWrites ==
    IF writes' # <<>>
    THEN SubSeq(writes', Len(writes) + 1, Len(writes'))
    ELSE IF writes # <<>>
         THEN SubSeq(ret'.writes, Len(writes) + 1, Len(ret'.writes))
         ELSE <<>>

\* C19: the program writes timer registers in start() only, and only those
\* of the unit the Timeout is bound to.  A step that changes a timer unit or
\* logs a register write is a step of start() on an active Timeout; such a
\* step writes one register, of the bound unit, and leaves the other three
\* units as they were.  Timeout::new, is_timeout_met, set_timer_for_timeout,
\* disable_timeout and lock_media leave every unit unchanged, and
\* is_timeout_met changes nothing but its own result.
C19_WritesConfinedToStart ==
    [][/\ (timers' # timers \/ NewWrites # <<>>) => \E c \in Ctx : StartWriteStep(c)
       /\ \A c \in Ctx :
            /\ StartWriteStep(c) =>
                  /\ Len(NewWrites) = 1
                  /\ NewWrites[1][1] \in {self'[c].timer_l, self[c].timer_h}
                  /\ \E k \in Units :
                        /\ NewWrites[1][1] \in {TMCNT_L(k), TMCNT_H(k)}
                        /\ \A u \in Units \ {k} : timers'[u] = timers[u]
            /\ (\/ Timeout_new_55(c) \/ Timeout_new_59(c) \/ Timeout_new_60(c)
                \/ \E i \in IdArgs : set_timer_for_timeout(c, i)
                \/ disable_timeout(c)
                \/ lock_media(c))
               => (UNCHANGED timers /\ NewWrites = <<>>)
            /\ \A i \in 1 .. MaxOwned :
                  (/\ ret'.op = "Timeout::is_timeout_met"
                   /\ ret'.arg \in CheckMsArgs
                   /\ Timeout_is_timeout_met(c, i, ret'.arg))
                  => UNCHANGED <<TIMER_ID, TIMEOUT_LOCK, LOCK, timers, pc, id, self,
                                 timeouts, guards, in_irq, hw, writes, elapsed>>]_vars

\* start() returned on unit 1 while unit 0, armed earlier, and the untouched
\* units 2 and 3 are as they were
C19_Witness ==
    /\ ret.op = "Timeout::start"
    /\ ret.active
    /\ ret.writes = StartWrites(MakeTimeout("T1"))
    /\ timers[0] = Armed
    /\ timers[1] = Armed
    /\ timers[2] = PowerOnTimer
    /\ timers[3] = PowerOnTimer

====
